---- MODULE Spec2Model ----
(***************************************************************************)
(* A model of the s3 package of file-uploader: the facade operations       *)
(* CreateBucket, UploadFile and DeleteFile of s3Service, their validators, *)
(* the two existence probes and the temporary-file helpers, run by         *)
(* concurrent callers against one object store and one working directory.  *)
(***************************************************************************)
EXTENDS Integers, Sequences, FiniteSets, TLC

VARIABLES
    buckets,    \* the store: names of the buckets that exist
    objects,    \* the store: <<bucket, key>> -> stored bytes
    fs,         \* the local file system: path -> inode
    inodeData,  \* the local file system: inode -> bytes
    call,       \* per caller: the operation in progress, its locals, its result
    started     \* number of facade calls begun so far

vars == <<buckets, objects, fs, inodeData, call, started>>

----------------------------------------------------------------------------
(* Bounds and input sets *)

\* Facade calls begun in one behaviour.
MaxCalls == 2

Procs == {1, 2}
Nil == "nil"

BucketNames == {"", "b1", "b2"}
Filenames == {"", "a.txt", "d/a.txt"}
ContentTypes == {"text/plain", "application/x-bogus-unregistered", ""}
Payloads == {"", "aGk=", "!!"}

UploadFileData ==
    [BucketName : BucketNames, ContentType : ContentTypes,
     Filename : Filenames, Base64Encoding : Payloads]

SeqsUpTo(S, n) == UNION {[1..k -> S] : k \in 0..n}

\* DeleteFile's lists are long enough to name every file, or one file twice.
MaxFilenames == Cardinality(Filenames \ {""})

DeleteFileData ==
    [BucketName : BucketNames,
     Filename : SeqsUpTo(Filenames \ {""}, MaxFilenames)]

----------------------------------------------------------------------------
(* Library functions the package calls *)

\* mime.ParseMediaType accepts a syntactically well-formed media type.
WellFormedMediaType(t) == t \in {"text/plain", "application/x-bogus-unregistered"}

\* The media types the mime package has extensions registered for.
RegisteredMediaTypes == {"text/plain"}

\* mime.ExtensionsByType: an error only when the type does not parse; a type
\* with no registered extension yields no extensions and no error.
ExtensionsByType(t) ==
    IF ~WellFormedMediaType(t)
    THEN [exts |-> <<>>, err |-> "mime: no media type"]
    ELSE IF t \in RegisteredMediaTypes
         THEN [exts |-> <<".txt">>, err |-> Nil]
         ELSE [exts |-> <<>>, err |-> Nil]

\* base64.StdEncoding.DecodeString on the payloads of the model.
DecodeString(s) ==
    CASE s = ""     -> [bytes |-> "", err |-> Nil]
      [] s = "aGk=" -> [bytes |-> "hi", err |-> Nil]
      [] s = "eW8=" -> [bytes |-> "yo", err |-> Nil]
      [] OTHER      -> [bytes |-> "", err |-> "illegal base64 data"]

\* The elements of a slash-separated name (empty elements dropped).
SplitPath(name) ==
    CASE name = ""        -> <<>>
      [] name = "/"       -> <<>>
      [] name = "a.txt"   -> <<"a.txt">>
      [] name = "d/a.txt" -> <<"d", "a.txt">>
      [] OTHER            -> <<name>>

\* filepath.Base of a path given by its elements: the last element.
Base(elems) == IF elems = <<>> THEN "/" ELSE elems[Len(elems)]

\* uuid.NewV4().String(): the n-th identifier drawn, distinct for distinct n.
NewV4(n) == "uuid-" \o ToString(n)

TempDir == <<"tmp">>

----------------------------------------------------------------------------
(* The object store, as the SDK client shows it *)

\* Answers HeadObject can give for a key: the truthful one, a response with
\* another status (403), or a failure that carries no HTTP response.
HeadObjectOutcomes(bucketName, filename) ==
    (IF <<bucketName, filename>> \in DOMAIN objects THEN {"200"} ELSE {"404"})
        \cup {"403", "transport"}

\* Answers HeadBucket can give: the truthful one (NotFound is the API error
\* *types.NotFound), another API error, or a failure that is no API error.
HeadBucketOutcomes(bucketName) ==
    (IF bucketName \in buckets THEN {"200"} ELSE {"NotFound"})
        \cup {"APIError", "transport"}

\* Answers CreateBucket can give: an existing bucket is refused by the store.
CreateBucketOutcomes(bucketName) ==
    IF bucketName \in buckets THEN {"BucketAlreadyOwnedByYou"} ELSE {"ok", "StoreError"}

\* Answers of the uploader's transfer.
UploadOutcomes(bucketName) ==
    IF bucketName \in buckets THEN {"ok", "StoreError"} ELSE {"NoSuchBucket"}

\* Answers DeleteObjects can give.
DeleteObjectsOutcomes(bucketName) ==
    IF bucketName \in buckets THEN {"ok", "StoreError"} ELSE {"NoSuchBucket"}

\* A function without the arguments in S.
Without(f, S) == [x \in DOMAIN f \ S |-> f[x]]

\* A function with x mapped to v.
With(f, x, v) == [y \in DOMAIN f \cup {x} |-> IF y = x THEN v ELSE f[y]]

----------------------------------------------------------------------------
(* validation.go *)

\* validateUploadFile up to the probe: the required fields, then the content type.
validateUploadFileFields(data) ==
    IF data.Filename = "" THEN "filename is required"
    ELSE IF data.Base64Encoding = "" THEN "base64Encoding is required"
    ELSE IF data.BucketName = "" THEN "bucket name is required"
    ELSE ExtensionsByType(data.ContentType).err

\* validateUploadFile that does not reject a name the probe found.
validateUploadFileProbe_IgnoreExist(probe) ==
    IF probe.err # Nil THEN probe.err ELSE Nil

\* validateUploadFile from the probe on: probe is what isFileExist returned.
validateUploadFileProbe(probe) ==
    IF probe.err # Nil THEN probe.err
    ELSE IF probe.exist THEN "file already exist on bucket"
    ELSE Nil

\* validateDeleteFile without its bucket-name check.
validateDeleteFile_NoBucketCheck(data) ==
    IF Len(data.Filename) = 0 THEN "filename is required" ELSE Nil

validateDeleteFile(data) ==
    IF Len(data.Filename) = 0 THEN "filename is required"
    ELSE IF data.BucketName = "" THEN "bucket name is required"
    ELSE Nil

----------------------------------------------------------------------------
(* service.go: the probes *)

\* isExistBucket on HeadBucket's answer o. An error that is no smithy.APIError
\* falls through both branches to the final return.
isExistBucket(o) ==
    IF o # "200"
    THEN IF o \in {"NotFound", "APIError"}
         THEN IF o = "NotFound"
              THEN [exist |-> FALSE, err |-> Nil]
              ELSE [exist |-> FALSE, err |-> o]
         ELSE [exist |-> TRUE, err |-> Nil]
    ELSE [exist |-> TRUE, err |-> Nil]

\* isFileExist on HeadObject's answer o.
isFileExist(o) ==
    IF o # "200"
    THEN IF o \in {"404", "403"}
         THEN IF o = "404"
              THEN [exist |-> FALSE, err |-> Nil]
              ELSE [exist |-> FALSE, err |-> o]
         ELSE [exist |-> FALSE, err |-> o]
    ELSE [exist |-> TRUE, err |-> Nil]

----------------------------------------------------------------------------
(* service.go: the helpers *)

\* s.region, the region the service was constructed with.
Region == "region"

\* One call recorded against the store client (on a bucket, with its further
\* argument) or against the local file system, and its outcome.
Event(ev, bucket, res, arg) == [ev |-> ev, bucket |-> bucket, res |-> res, arg |-> arg]

\* pathFile of UploadFile: filepath.Base of "<TempDir>/<uuid>/<Filename>".
PathFile(n, filename) == Base(TempDir \o <<NewV4(n)>> \o SplitPath(filename))

\* Inodes still reachable: linked under a path or held open by a call.
Referenced(fs2, call2) ==
    {fs2[x] : x \in DOMAIN fs2} \cup {call2[q].file : q \in Procs}

\* The inode os.Create makes for a new file: the least number not in use.
NewInode ==
    CHOOSE k \in 1..(Cardinality(Referenced(fs, call)) + 1) :
        /\ k \notin Referenced(fs, call)
        /\ \A j \in 1..(k - 1) : j \in Referenced(fs, call)

\* What the file system can do to createFile, and to os.Open of a file that exists.
\* os.RemoveAll of the staged file is taken to succeed.
CreateFileOutcomes == {"ok", "createErr", "writeErr"}
OpenOutcomes(pathFile) == IF pathFile \in DOMAIN fs THEN {"ok", "openErr"} ELSE {"ENOENT"}
RemoveFileOutcomes == {"ok"}

\* createFile: decode, os.Create (a new inode n, or the existing file truncated),
\* file.Write. o is what the file system does: "ok", "createErr" or "writeErr".
createFile(fileBase64, pathFile, o, n) ==
    LET dec == DecodeString(fileBase64)
        ino == IF pathFile \in DOMAIN fs THEN fs[pathFile] ELSE n
    IN IF dec.err # Nil
       THEN [res |-> "decodeErr", err |-> dec.err, fs |-> fs, inodeData |-> inodeData]
       ELSE IF o = "createErr"
       THEN [res |-> o, err |-> o, fs |-> fs, inodeData |-> inodeData]
       ELSE IF o = "writeErr"
       THEN [res |-> o, err |-> o, fs |-> With(fs, pathFile, ino),
             inodeData |-> With(inodeData, ino, "")]
       ELSE [res |-> "ok", err |-> Nil, fs |-> With(fs, pathFile, ino),
             inodeData |-> With(inodeData, ino, dec.bytes)]

\* removeFile: os.RemoveAll, which succeeds on a path that does not exist.
removeFile(pathFile, o) ==
    IF o = "ok" THEN [err |-> Nil, fs |-> Without(fs, {pathFile})]
    ELSE [err |-> o, fs |-> fs]

\* CreateBucket that logs the store's error and returns nil.
CreateBucketResult_Swallow(bucketName, o) ==
    IF bucketName = "" THEN "bucket name is required" ELSE Nil

\* CreateBucket's result for the store's answer o (no call on an empty name).
CreateBucketResult(bucketName, o) ==
    IF bucketName = "" THEN "bucket name is required"
    ELSE IF o # "ok" THEN o
    ELSE Nil

\* The store after CreateBucket answered o.
CreateBucketStore(bucketName, o) ==
    IF o = "ok" THEN buckets \cup {bucketName} ELSE buckets

\* UploadFile after isExistBucket returned r: return, create the bucket, or transfer.
UploadAfterProbe(r) ==
    IF r.err # Nil THEN "removeFile"
    ELSE IF ~r.exist THEN "CreateBucket"
    ELSE "Upload"

\* UploadFile that goes on to the transfer whatever its CreateBucket returned.
UploadAfterCreateBucket_IgnoreErr(err) == "Upload"

\* UploadFile after its CreateBucket returned err: return, or transfer.
UploadAfterCreateBucket(err) ==
    IF err # Nil THEN "removeFile" ELSE "Upload"

\* DeleteFile's loop body keeping every filename probed.
AppendExist_Always(fileExist, filename, isExist) == Append(fileExist, filename)

\* DeleteFile's first loop body: keep the filename when the probe found it.
AppendExist(fileExist, filename, isExist) ==
    IF isExist THEN Append(fileExist, filename) ELSE fileExist

----------------------------------------------------------------------------
(* The callers *)

NoData == [BucketName |-> ""]

Idle ==
    [op |-> "none", pc |-> "idle", data |-> NoData, pathFile |-> "", file |-> 0,
     i |-> 0, fileExist |-> <<>>, err |-> Nil, location |-> <<>>, log |-> <<>>,
     tempLeft |-> FALSE]

Init ==
    /\ buckets = {}
    /\ objects = <<>>
    /\ fs = <<>>
    /\ inodeData = <<>>
    /\ call = [p \in Procs |-> Idle]
    /\ started = 0

\* A caller may begin an operation when it is in none.
CanStart(p) == call[p].pc \in {"idle", "done"} /\ started < MaxCalls

\* The call of p has returned err.
Return(c, err) == [c EXCEPT !.pc = "done", !.err = err]

\* UploadFile, lines 99-103: validateUploadFile (with its probe), then pathFile.
UploadFile(p) ==
    /\ CanStart(p)
    /\ started' = started + 1
    /\ \E data \in UploadFileData :
         LET c == [Idle EXCEPT !.op = "UploadFile", !.data = data]
             ferr == validateUploadFileFields(data)
         IN IF ferr # Nil
            THEN call' = [call EXCEPT ![p] = Return(c, ferr)]
            ELSE \E o \in HeadObjectOutcomes(data.BucketName, data.Filename) :
                   LET verr == validateUploadFileProbe(isFileExist(o))
                       c2 == [c EXCEPT !.log = <<Event("HeadObject", data.BucketName, o, data.Filename)>>]
                   IN IF verr # Nil
                      THEN call' = [call EXCEPT ![p] = Return(c2, verr)]
                      ELSE call' = [call EXCEPT ![p] =
                               [c2 EXCEPT !.pc = "createFile",
                                          !.pathFile = PathFile(started', data.Filename)]]
    /\ UNCHANGED <<buckets, objects, fs, inodeData>>

\* UploadFile, lines 104-112: createFile; the removal is deferred only after it.
UploadCreateFile(p) ==
    /\ call[p].pc = "createFile"
    /\ \E o \in CreateFileOutcomes :
         LET c == call[p]
             r == createFile(c.data.Base64Encoding, c.pathFile, o, NewInode)
             c2 == [c EXCEPT !.log = Append(@, Event("createFile", "", r.res, c.pathFile))]
         IN /\ fs' = r.fs
            /\ inodeData' = r.inodeData
            /\ call' = [call EXCEPT ![p] =
                   IF r.err # Nil
                   THEN [Return(c2, r.err) EXCEPT !.tempLeft = c.pathFile \in DOMAIN r.fs]
                   ELSE [c2 EXCEPT !.pc = "Open"]]
    /\ UNCHANGED <<buckets, objects, started>>

\* UploadFile, lines 114-117: os.Open of the staged file.
UploadOpen(p) ==
    /\ call[p].pc = "Open"
    /\ \E o \in OpenOutcomes(call[p].pathFile) :
         LET c == [call[p] EXCEPT !.log = Append(@, Event("Open", "", o, call[p].pathFile))]
         IN call' = [call EXCEPT ![p] =
                IF o = "ok"
                THEN [c EXCEPT !.pc = "isExistBucket", !.file = fs[c.pathFile]]
                ELSE [c EXCEPT !.pc = "removeFile", !.err = o]]
    /\ UNCHANGED <<buckets, objects, fs, inodeData, started>>

\* UploadFile, lines 119-124: the bucket probe.
UploadIsExistBucket(p) ==
    /\ call[p].pc = "isExistBucket"
    /\ \E o \in HeadBucketOutcomes(call[p].data.BucketName) :
         LET r == isExistBucket(o)
             c == [call[p] EXCEPT !.log = Append(@, Event("HeadBucket", call[p].data.BucketName, o, <<>>))]
         IN call' = [call EXCEPT ![p] =
                [c EXCEPT !.pc = UploadAfterProbe(r), !.err = r.err]]
    /\ UNCHANGED <<buckets, objects, fs, inodeData, started>>

\* UploadFile, lines 124-128: CreateBucket for a bucket the probe did not find.
UploadCreateBucket(p) ==
    /\ call[p].pc = "CreateBucket"
    /\ \E o \in CreateBucketOutcomes(call[p].data.BucketName) :
         LET err == CreateBucketResult(call[p].data.BucketName, o)
             c == [call[p] EXCEPT !.log = Append(@, Event("CreateBucket", call[p].data.BucketName, o, Region))]
         IN /\ buckets' = CreateBucketStore(call[p].data.BucketName, o)
            /\ call' = [call EXCEPT ![p] =
                   [c EXCEPT !.pc = UploadAfterCreateBucket(err), !.err = err]]
    /\ UNCHANGED <<objects, fs, inodeData, started>>

\* UploadFile, lines 130-147: the transfer of the open file's bytes.
UploadTransfer(p) ==
    /\ call[p].pc = "Upload"
    /\ \E o \in UploadOutcomes(call[p].data.BucketName) :
         LET key == <<call[p].data.BucketName, call[p].data.Filename>>
             c == [call[p] EXCEPT !.log = Append(@,
                      Event("PutObject", key[1], o,
                            [Key |-> key[2], replaces |-> key \in DOMAIN objects]))]
         IN /\ objects' = IF o = "ok" THEN With(objects, key, inodeData[c.file])
                          ELSE objects
            /\ call' = [call EXCEPT ![p] =
                   IF o = "ok"
                   THEN [c EXCEPT !.pc = "removeFile", !.location = key]
                   ELSE [c EXCEPT !.pc = "removeFile", !.err = "failed to upload file"]]
    /\ UNCHANGED <<buckets, fs, inodeData, started>>

\* UploadFile, lines 108-112: the deferred removeFile, run as UploadFile returns.
UploadRemoveFile(p) ==
    /\ call[p].pc = "removeFile"
    /\ \E o \in RemoveFileOutcomes :
         LET c == call[p]
             r == removeFile(c.pathFile, o)
             c2 == [c EXCEPT !.log = Append(@, Event("removeFile", "", o, c.pathFile)),
                             !.pc = "done", !.file = 0,
                             !.tempLeft = c.pathFile \in DOMAIN r.fs]
             call2 == [call EXCEPT ![p] = c2]
         IN /\ fs' = r.fs
            /\ call' = call2
            /\ inodeData' = Without(inodeData, DOMAIN inodeData \ Referenced(r.fs, call2))
    /\ UNCHANGED <<buckets, objects, started>>

\* CreateBucket, lines 59-76, called by a caller.
CreateBucket(p) ==
    /\ CanStart(p)
    /\ started' = started + 1
    /\ \E bucketName \in BucketNames :
         LET c == [Idle EXCEPT !.op = "CreateBucket", !.data = [BucketName |-> bucketName]]
         IN IF bucketName = ""
            THEN /\ call' = [call EXCEPT ![p] = Return(c, CreateBucketResult(bucketName, "ok"))]
                 /\ UNCHANGED buckets
            ELSE \E o \in CreateBucketOutcomes(bucketName) :
                   /\ buckets' = CreateBucketStore(bucketName, o)
                   /\ call' = [call EXCEPT ![p] =
                          Return([c EXCEPT !.log = <<Event("CreateBucket", bucketName, o, Region)>>],
                                 CreateBucketResult(bucketName, o))]
    /\ UNCHANGED <<objects, fs, inodeData>>

\* DeleteFile, lines 200-204: validateDeleteFile.
DeleteFile(p) ==
    /\ CanStart(p)
    /\ started' = started + 1
    /\ \E data \in DeleteFileData :
         LET c == [Idle EXCEPT !.op = "DeleteFile", !.data = data]
             verr == validateDeleteFile(data)
         IN call' = [call EXCEPT ![p] =
                IF verr # Nil THEN Return(c, verr)
                ELSE [c EXCEPT !.pc = "isFileExist", !.i = 1]]
    /\ UNCHANGED <<buckets, objects, fs, inodeData>>

\* DeleteFile, lines 205-214: one turn of the probing loop.
DeleteFileProbe(p) ==
    /\ call[p].pc = "isFileExist"
    /\ LET c == call[p]
           filename == c.data.Filename[c.i]
       IN \E o \in HeadObjectOutcomes(c.data.BucketName, filename) :
            LET r == isFileExist(o)
                c2 == [c EXCEPT !.log = Append(@, Event("HeadObject", c.data.BucketName, o, filename))]
            IN call' = [call EXCEPT ![p] =
                   IF r.err # Nil THEN Return(c2, r.err)
                   ELSE [c2 EXCEPT !.fileExist = AppendExist(@, filename, r.exist),
                                   !.i = @ + 1,
                                   !.pc = IF c.i = Len(c.data.Filename)
                                          THEN "DeleteObjects" ELSE "isFileExist"]]
    /\ UNCHANGED <<buckets, objects, fs, inodeData, started>>

\* DeleteFile, lines 216-231: the batch delete of the names found.
DeleteFileObjects(p) ==
    /\ call[p].pc = "DeleteObjects"
    /\ LET c == call[p]
           objectIds == c.fileExist
       IN \E o \in DeleteObjectsOutcomes(c.data.BucketName) :
            /\ objects' = IF o = "ok"
                          THEN Without(objects, {<<c.data.BucketName, objectIds[k]>> :
                                                    k \in 1..Len(objectIds)})
                          ELSE objects
            /\ call' = [call EXCEPT ![p] =
                   Return([c EXCEPT !.log = Append(@,
                              Event("DeleteObjects", c.data.BucketName, o, objectIds))],
                          IF o = "ok" THEN Nil ELSE o)]
    /\ UNCHANGED <<buckets, fs, inodeData, started>>

Next ==
    \E p \in Procs :
        \/ UploadFile(p)
        \/ UploadCreateFile(p)
        \/ UploadOpen(p)
        \/ UploadIsExistBucket(p)
        \/ UploadCreateBucket(p)
        \/ UploadTransfer(p)
        \/ UploadRemoveFile(p)
        \/ CreateBucket(p)
        \/ DeleteFile(p)
        \/ DeleteFileProbe(p)
        \/ DeleteFileObjects(p)

Spec == Init /\ [][Next]_vars

----------------------------------------------------------------------------
(* What the claims speak of *)

StoreEvents == {"HeadObject", "HeadBucket", "CreateBucket", "PutObject", "DeleteObjects"}

\* The positions in a call's record where it made the call ev.
At(c, ev) == {i \in 1..Len(c.log) : c.log[i].ev = ev}

\* The call created its temporary file on disk.
CreatedTemp(c) == \E i \in At(c, "createFile") : c.log[i].res \in {"ok", "writeErr"}

\* The call is one whose request misses a required field.
MissingField(c) ==
    \/ c.op = "UploadFile" /\ (c.data.Filename = "" \/ c.data.Base64Encoding = ""
                                 \/ c.data.BucketName = "")
    \/ c.op = "DeleteFile" /\ (Len(c.data.Filename) = 0 \/ c.data.BucketName = "")
    \/ c.op = "CreateBucket" /\ c.data.BucketName = ""

RequiredMessages ==
    {"filename is required", "base64Encoding is required", "bucket name is required"}

\* The names among the first n of a DeleteFile request whose probe answered found.
RECURSIVE FoundNames(_, _)
FoundNames(c, n) ==
    IF n = 0 THEN <<>>
    ELSE IF c.log[n].res = "200"
         THEN Append(FoundNames(c, n - 1), c.data.Filename[n])
         ELSE FoundNames(c, n - 1)

----------------------------------------------------------------------------
(* C1 *)

\* C1: a request that misses a required field is answered with an error
\* without any call to the store and without a temporary file: UploadFile with
\* an empty filename, payload or bucket name, DeleteFile with an empty list or
\* bucket name, CreateBucket with an empty name.
C1_MissingFieldNoCall ==
    \A p \in Procs :
        MissingField(call[p]) =>
            /\ call[p].pc = "done"
            /\ call[p].err \in RequiredMessages
            /\ call[p].log = <<>>
            /\ call[p].pathFile = ""
            /\ ~call[p].tempLeft

C1_Witness ==
    \E p, q \in Procs :
        /\ call[p].op = "DeleteFile" /\ call[p].pc = "done"
        /\ Len(call[p].data.Filename) > 0 /\ call[p].data.BucketName = ""
        /\ call[q].op = "UploadFile" /\ call[q].pc = "done"
        /\ call[q].data.Filename # "" /\ call[q].data.Base64Encoding = ""

----------------------------------------------------------------------------
(* C2 *)

\* C2: an UploadFile with valid fields whose object probe reports that the
\* object exists returns the already-exists error having made no other call:
\* no file staged, no bucket probed or created, no transfer.
C2_ExistingNotTransferred ==
    \A p \in Procs :
        LET c == call[p]
        IN (c.op = "UploadFile" /\ c.log # <<>> /\ isFileExist(c.log[1].res).exist) =>
            /\ c.pc = "done"
            /\ c.err = "file already exist on bucket"
            /\ Len(c.log) = 1
            /\ c.log[1].ev = "HeadObject"
            /\ c.pathFile = "" /\ ~c.tempLeft
            /\ c.location = <<>>

C2_Witness ==
    \E p \in Procs :
        /\ call[p].op = "UploadFile" /\ call[p].pc = "done"
        /\ call[p].log # <<>> /\ call[p].log[1].res = "200"
        /\ <<call[p].data.BucketName, call[p].data.Filename>> \in DOMAIN objects

----------------------------------------------------------------------------
(* C3 *)

\* C3: whenever UploadFile has created its temporary file, the file no longer
\* exists when UploadFile returns, on every exit path.
C3_TempFileRemoved ==
    \A p \in Procs :
        (call[p].op = "UploadFile" /\ call[p].pc = "done" /\ CreatedTemp(call[p]))
            => ~call[p].tempLeft

----------------------------------------------------------------------------
(* C4 *)

----------------------------------------------------------------------------
(* C5 *)

\* C5: on every head call made, the probe returns (false, no error) for a
\* not-found answer, an error for every other failure, and never (true, no
\* error) for a failed head call; for the bucket probe as for the object probe.
C5_ProbesSurfaceFailures ==
    \A p \in Procs : \A i \in 1..Len(call[p].log) :
        LET e == call[p].log[i]
        IN /\ e.ev = "HeadBucket" =>
                LET r == isExistBucket(e.res)
                IN /\ e.res = "NotFound" => (~r.exist /\ r.err = Nil)
                   /\ e.res \notin {"200", "NotFound"} => r.err # Nil
                   /\ e.res # "200" => ~(r.exist /\ r.err = Nil)
           /\ e.ev = "HeadObject" =>
                LET r == isFileExist(e.res)
                IN /\ e.res = "404" => (~r.exist /\ r.err = Nil)
                   /\ e.res \notin {"200", "404"} => r.err # Nil
                   /\ e.res # "200" => ~(r.exist /\ r.err = Nil)

----------------------------------------------------------------------------
(* C6 *)

\* C6: an UploadFile with non-empty filename, payload and bucket name and a
\* well-formed content type that is no registered MIME type fails with the
\* content-type error before any probe, staging or transfer.
C6_UnregisteredTypeRejected ==
    \A p \in Procs :
        LET c == call[p]
        IN (/\ c.op = "UploadFile"
            /\ c.data.Filename # "" /\ c.data.Base64Encoding # "" /\ c.data.BucketName # ""
            /\ WellFormedMediaType(c.data.ContentType)
            /\ c.data.ContentType \notin RegisteredMediaTypes) =>
            /\ c.pc = "done"
            /\ c.err \notin {Nil} \cup RequiredMessages
            /\ c.log = <<>>

----------------------------------------------------------------------------
(* C7 *)

\* C7: CreateBucket with a non-empty name makes exactly one call, the
\* create-bucket call for that name with the configured region, no probe, and
\* returns that call's outcome: on success the bucket exists and the bucket
\* probe finds it; the store's refusal of an existing bucket is returned.
C7_CreateBucketOutcome ==
    \A p \in Procs :
        LET c == call[p]
        IN (c.op = "CreateBucket" /\ c.pc = "done" /\ c.data.BucketName # "") =>
            /\ Len(c.log) = 1
            /\ c.log[1].ev = "CreateBucket"
            /\ c.log[1].bucket = c.data.BucketName
            /\ c.log[1].arg = Region
            /\ c.log[1].res = "ok" =>
                  /\ c.err = Nil
                  /\ c.data.BucketName \in buckets
                  /\ \A o \in HeadBucketOutcomes(c.data.BucketName) \ {"APIError", "transport"} :
                        isExistBucket(o) = [exist |-> TRUE, err |-> Nil]
            /\ c.log[1].res # "ok" => c.err = c.log[1].res

C7_Witness ==
    \E p, q \in Procs :
        /\ call[p].op = "CreateBucket" /\ call[p].pc = "done" /\ call[p].err = Nil
        /\ call[q].op = "CreateBucket" /\ call[q].pc = "done"
        /\ call[q].data.BucketName = call[p].data.BucketName
        /\ call[q].err = "BucketAlreadyOwnedByYou"

----------------------------------------------------------------------------
(* C8 *)

----------------------------------------------------------------------------
(* C9 *)

\* C9: two concurrent UploadFile calls stage to different file paths, so that
\* neither overwrites nor removes the file the other is transferring.
C9_DistinctTempPaths ==
    \A p, q \in Procs :
        (/\ p # q
         /\ call[p].pc \in {"Open", "isExistBucket", "CreateBucket", "Upload", "removeFile"}
         /\ call[q].pc \in {"Open", "isExistBucket", "CreateBucket", "Upload", "removeFile"})
            => call[p].pathFile # call[q].pathFile

----------------------------------------------------------------------------
(* C10 *)

\* C10: UploadFile never overwrites an object that exists in the store: of
\* concurrent calls for one bucket and filename at most one transfers, so no
\* transfer is made for a key that is present when the transfer is made.
C10_NeverOverwrites ==
    \A p \in Procs : \A i \in At(call[p], "PutObject") : ~call[p].log[i].arg.replaces

====
